---- MODULE Spec2Model ----
(***************************************************************************)
(* Forward-kinematics core of compas.robots: one Joint (with its Limit,    *)
(* Mimic and Axis) as a state machine.  The joint is constructed once and  *)
(* then driven by the operations of src/compas/robots/model/joint.py.      *)
(* Further specifications drive a Mimic, an Axis, the position pass of a   *)
(* robot model over its mimic relations, a Bezier curve of                 *)
(* src/compas/geometry/primitives/curve.py, the node keys of a Network of  *)
(* src/compas/datastructures/network/network.py, and the data of a glTF    *)
(* material of src/compas/files/gltf/data_classes.py.                      *)
(*                                                                         *)
(* Numbers are integers.  Lengths are whole units, and angles are counted  *)
(* in quarter turns, the unit in which cos and sin are integers, so that   *)
(* every transformation is an exact 4x4 integer matrix.  A scale factor is  *)
(* a ratio num/den, and a value is scaled only where the product is whole. *)
(***************************************************************************)
EXTENDS Integers, Sequences, FiniteSets, TLC

VARIABLES joint, last, ncalls, robot, curve, network, material

vars == <<joint, last, ncalls, robot, curve, network, material>>
\* the robot model, the curve, the network and the material, which the
\* joint's operations do not touch
others == <<robot, curve, network, material>>

(***************************************************************************)
(* Bounds of the model.                                                    *)
(***************************************************************************)
\* positions asked of calculate_transformation range over -MaxPos..MaxPos
MaxPos == 2
\* a run makes at most MaxCalls calls on the joint it has constructed
MaxCalls == 3
\* Bezier.locus is asked for 0..MaxResolution points
MaxResolution == 4

(***************************************************************************)
(* Joint type indices (class attributes of Joint).                         *)
(***************************************************************************)
REVOLUTE == 0
CONTINUOUS == 1
PRISMATIC == 2
FIXED == 3
FLOATING == 4
PLANAR == 5

SUPPORTED_TYPES == <<"revolute", "continuous", "prismatic", "fixed", "floating", "planar">>

\* Python's None, and the joint before any constructor has returned
None == [none |-> TRUE]
NoJoint == [constructed |-> FALSE]
\* hasattr(self, '_calculate_transformation') is false
Unset == -1

(***************************************************************************)
(* Python builtins.                                                        *)
(***************************************************************************)
Max(a, b) == IF a >= b THEN a ELSE b
Min(a, b) == IF a <= b THEN a ELSE b
Abs(a) == IF a < 0 THEN -a ELSE a

(***************************************************************************)
(* Geometry library (compas.geometry): vectors, frames, transformations.   *)
(***************************************************************************)
Dot(u, v) == u[1] * v[1] + u[2] * v[2] + u[3] * v[3]
Cross(u, v) == << u[2] * v[3] - u[3] * v[2],
                  u[3] * v[1] - u[1] * v[3],
                  u[1] * v[2] - u[2] * v[1] >>
VecScale(v, s) == << v[1] * s, v[2] * s, v[3] * s >>
\* a scale factor num/den (den > 0), the product x * factor and the factor 1/factor
Ratio(n, d) == [num |-> n, den |-> d]
Times(x, factor) == (x * factor.num) \div factor.den
IsWhole(x, factor) == (x * factor.num) % factor.den = 0
Inverse(factor) ==
    IF factor.num > 0 THEN Ratio(factor.den, factor.num) ELSE Ratio(-factor.den, -factor.num)
VecTimes(v, factor) == << Times(v[1], factor), Times(v[2], factor), Times(v[3], factor) >>
VecAdd(u, v) == << u[1] + v[1], u[2] + v[2], u[3] + v[3] >>
VecSub(u, v) == << u[1] - v[1], u[2] - v[2], u[3] - v[3] >>
\* Vector.length, on the vectors whose length is a whole number
Length(v) == CHOOSE n \in 0..(Abs(v[1]) + Abs(v[2]) + Abs(v[3])) : n * n = Dot(v, v)
\* Vector.unitize
Unitized(v) == << v[1] \div Length(v), v[2] \div Length(v), v[3] \div Length(v) >>

\* cos and sin of an angle given in quarter turns
Cos(a) == CASE a % 4 = 0 -> 1 [] a % 4 = 1 -> 0 [] a % 4 = 2 -> -1 [] OTHER -> 0
Sin(a) == CASE a % 4 = 0 -> 0 [] a % 4 = 1 -> 1 [] a % 4 = 2 -> 0 [] OTHER -> -1

\* Transformation(): the identity matrix
Identity == << <<1, 0, 0, 0>>, <<0, 1, 0, 0>>, <<0, 0, 1, 0>>, <<0, 0, 0, 1>> >>
\* Translation.from_vector
TranslationFromVector(v) ==
    << <<1, 0, 0, v[1]>>, <<0, 1, 0, v[2]>>, <<0, 0, 1, v[3]>>, <<0, 0, 0, 1>> >>
\* the 3x3 rotation about a unit (or zero) axis through an angle (Rodrigues)
RotationPart(axis, angle) ==
    LET c == Cos(angle)
        s == Sin(angle)
        K == << <<0, -axis[3], axis[2]>>, <<axis[3], 0, -axis[1]>>, <<-axis[2], axis[1], 0>> >>
    IN  [i \in 1..3 |-> [j \in 1..3 |->
            (IF i = j THEN c ELSE 0) + (1 - c) * axis[i] * axis[j] + s * K[i][j]]]
Mat3Vec(R, v) == [i \in 1..3 |-> R[i][1] * v[1] + R[i][2] * v[2] + R[i][3] * v[3]]
\* Rotation.from_axis_and_angle(axis, angle, point)
RotationFromAxisAndAngle(axis, angle, point) ==
    LET R == RotationPart(axis, angle)
        t == VecSub(point, Mat3Vec(R, point))
    IN  << <<R[1][1], R[1][2], R[1][3], t[1]>>,
           <<R[2][1], R[2][2], R[2][3], t[2]>>,
           <<R[3][1], R[3][2], R[3][3], t[3]>>,
           <<0, 0, 0, 1>> >>
\* Transformation * Transformation
MatMul(A, B) ==
    [i \in 1..4 |-> [j \in 1..4 |->
        A[i][1] * B[1][j] + A[i][2] * B[2][j] + A[i][3] * B[3][j] + A[i][4] * B[4][j]]]
\* transform_points: homogenised with w = 1
TransformPoint(T, p) ==
    [i \in 1..3 |-> T[i][1] * p[1] + T[i][2] * p[2] + T[i][3] * p[3] + T[i][4]]
\* transform_vectors: homogenised with w = 0, the translation is not applied
TransformVector(T, v) ==
    [i \in 1..3 |-> T[i][1] * v[1] + T[i][2] * v[2] + T[i][3] * v[3]]

\* Frame(point, xaxis, yaxis); Frame.from_euler_angles([0, 0, 0]) is the world frame
Frame(point, xaxis, yaxis) == [point |-> point, xaxis |-> xaxis, yaxis |-> yaxis]
WorldXY == Frame(<<0, 0, 0>>, <<1, 0, 0>>, <<0, 1, 0>>)
\* Frame.transformed(T), Frame.transform(T) for a rigid T
FrameTransformed(f, T) ==
    Frame(TransformPoint(T, f.point), TransformVector(T, f.xaxis), TransformVector(T, f.yaxis))
\* Frame.scale(factor): the point is scaled, the orientation is kept
FrameScaled(f, factor) == Frame(VecTimes(f.point, factor), f.xaxis, f.yaxis)
\* Transformation.from_frame
TransformationFromFrame(f) ==
    LET z == Cross(f.xaxis, f.yaxis)
    IN  << <<f.xaxis[1], f.yaxis[1], z[1], f.point[1]>>,
           <<f.xaxis[2], f.yaxis[2], z[2], f.point[2]>>,
           <<f.xaxis[3], f.yaxis[3], z[3], f.point[3]>>,
           <<0, 0, 0, 1>> >>

(***************************************************************************)
(* Outcome of a call: a returned value or the exception that was raised.   *)
(***************************************************************************)
NoValue == << >>
Return(value) == [status |-> "ok", value |-> value]
Raise(exception) == [status |-> exception, value |-> NoValue]

(***************************************************************************)
(* Limit                                                                   *)
(***************************************************************************)
\* Limit.__init__
Limit(effort, velocity, lower, upper, attr) ==
    [effort |-> effort, velocity |-> velocity, lower |-> lower, upper |-> upper, attr |-> attr]

\* mutant of Limit.scale: the velocity is scaled with the bounds
Limit_scale_AlsoVelocity(self, factor) ==
    [self EXCEPT !.lower = Times(self.lower, factor), !.upper = Times(self.upper, factor),
                 !.velocity = Times(self.velocity, factor)]

\* Limit.scale
Limit_scale(self, factor) ==
    [self EXCEPT !.lower = Times(self.lower, factor), !.upper = Times(self.upper, factor)]

(***************************************************************************)
(* Mimic                                                                   *)
(***************************************************************************)
\* Mimic.__init__
Mimic(other, multiplier, offset) ==
    [joint |-> other, multiplier |-> multiplier, offset |-> offset]

\* Mimic(joint, multiplier=1.0, offset=0.): kwargs holds the keyword arguments
\* the caller gives, an omitted one takes its default
Mimic_init(other, kwargs) ==
    Mimic(other,
          IF "multiplier" \in DOMAIN kwargs THEN kwargs.multiplier ELSE 1,
          IF "offset" \in DOMAIN kwargs THEN kwargs.offset ELSE 0)

Mimic_calculate_position_OffsetFirst(self, mimicked_joint_position) ==
    self.multiplier * (mimicked_joint_position + self.offset)

Mimic_calculate_position_Abs(self, mimicked_joint_position) ==
    self.multiplier * Abs(mimicked_joint_position) + self.offset

\* Mimic.calculate_position
Mimic_calculate_position(self, mimicked_joint_position) ==
    self.multiplier * mimicked_joint_position + self.offset

(***************************************************************************)
(* Axis: the triple <<x, y, z>>.                                           *)
(***************************************************************************)
Axis_Unnormalised(xyz) == xyz

\* Axis.__init__: a non-zero direction is unitized, the zero vector is kept
Axis(xyz) == IF Length(xyz) # 0 THEN Unitized(xyz) ELSE xyz

\* Axis.copy: the components are formatted, parsed and given to Axis.__init__
Axis_copy(self) == Axis(self)

\* Axis.transformed: a new vector, the axis is not changed
Axis_transformed(self, transformation) == TransformVector(transformation, self)

Axis_transform_WithTranslation(self, transformation) ==
    [i \in 1..3 |-> TransformVector(transformation, self)[i] + transformation[i][4]]

\* Axis.transform: x, y, z are overwritten
Axis_transform(self, transformation) == TransformVector(transformation, self)

(***************************************************************************)
(* Joint                                                                   *)
(***************************************************************************)
\* a type given to the constructor: a string or an integer
StrType(s) == [isstr |-> TRUE, s |-> s, i |-> 0]
IntType(i) == [isstr |-> FALSE, s |-> "", i |-> i]

InSupportedTypes(s) == \E k \in 1..Len(SUPPORTED_TYPES) : SUPPORTED_TYPES[k] = s
\* SUPPORTED_TYPES.index(s)
TypeIndex(s) == (CHOOSE k \in 1..Len(SUPPORTED_TYPES) : SUPPORTED_TYPES[k] = s) - 1

\* mutant of the range test of Joint.__init__: index 0 is rejected
ResolveType_RejectsZero(type) ==
    LET type_idx == IF type.isstr /\ InSupportedTypes(type.s) THEN IntType(TypeIndex(type.s)) ELSE type
    IN  IF type_idx.isstr \/ type_idx.i \notin 1..(Len(SUPPORTED_TYPES) - 1)
        THEN Unset
        ELSE type_idx.i

\* Joint.__init__, from "type_idx = type" to the range test: the index, or Unset
\* when the constructor raises ValueError
ResolveType(type) ==
    LET type_idx == IF type.isstr /\ InSupportedTypes(type.s) THEN IntType(TypeIndex(type.s)) ELSE type
    IN  IF type_idx.isstr \/ type_idx.i \notin 0..(Len(SUPPORTED_TYPES) - 1)
        THEN Unset
        ELSE type_idx.i

NewJoint_Aliasing(name, type_idx, origin, axis, limit, mimic) ==
    LET o == IF origin = None THEN WorldXY ELSE origin
        a == IF axis = None THEN Axis(<<1, 0, 0>>) ELSE axis
    IN  [constructed |-> TRUE,
         name |-> name,
         type |-> type_idx,
         origin |-> o,
         axis |-> a,
         limit |-> limit,
         mimic |-> mimic,
         position |-> 0,
         current_origin |-> o,
         current_axis |-> a,
         dispatch |-> Unset,
         shares |-> {"origin", "axis"}]

\* Joint.__init__ once the type is accepted: current_origin and current_axis are copies, so neither is
\* the same object as its static field (shares names the fields that are)
NewJoint(name, type_idx, origin, axis, limit, mimic) ==
    LET o == IF origin = None THEN WorldXY ELSE origin
        a == IF axis = None THEN Axis(<<1, 0, 0>>) ELSE axis
    IN  [constructed |-> TRUE,
         name |-> name,
         type |-> type_idx,
         origin |-> o,
         axis |-> a,
         limit |-> limit,
         mimic |-> mimic,
         position |-> 0,
         current_origin |-> o,
         current_axis |-> Axis_copy(a),
         dispatch |-> Unset,
         shares |-> {}]

\* mutant of Joint.is_configurable: "or" for "and"
is_configurable_Or(self) == self.type # FIXED \/ self.mimic = None

\* Joint.is_configurable
is_configurable(self) == self.type # FIXED /\ self.mimic = None

\* mutant of Joint.is_scalable: REVOLUTE for PRISMATIC
is_scalable_Revolute(self) == self.type \in {PLANAR, REVOLUTE}

\* Joint.is_scalable
is_scalable(self) == self.type \in {PLANAR, PRISMATIC}

\* the clamping of calculate_revolute_transformation and calculate_prismatic_transformation
Clamp(position, limit) == Max(Min(position, limit.upper), limit.lower)

\* Joint.calculate_continuous_transformation
calculate_continuous_transformation(self, position) ==
    Return(RotationFromAxisAndAngle(self.current_axis, position, self.current_origin.point))

\* mutant of Joint.calculate_revolute_transformation: a position outside the limit
\* is rejected instead of clamped
calculate_revolute_transformation_Rejecting(self, position) ==
    IF self.limit = None
    THEN Raise("ValueError")
    ELSE IF position > self.limit.upper \/ position < self.limit.lower
         THEN Raise("ValueError")
         ELSE calculate_continuous_transformation(self, position)

\* Joint.calculate_revolute_transformation
calculate_revolute_transformation(self, position) ==
    IF self.limit = None
    THEN Raise("ValueError")
    ELSE calculate_continuous_transformation(self, Clamp(position, self.limit))

calculate_prismatic_transformation_Reversed(self, position) ==
    IF self.limit = None
    THEN Raise("ValueError")
    ELSE Return(TranslationFromVector(VecScale(self.current_axis, -Clamp(position, self.limit))))

\* Joint.calculate_prismatic_transformation
calculate_prismatic_transformation(self, position) ==
    IF self.limit = None
    THEN Raise("ValueError")
    ELSE Return(TranslationFromVector(VecScale(self.current_axis, Clamp(position, self.limit))))

\* Joint.calculate_fixed_transformation
calculate_fixed_transformation(self, position) == Return(Identity)

\* Joint.calculate_floating_transformation
calculate_floating_transformation(self, position) == Raise("NotImplementedError")

\* Joint.calculate_planar_transformation
calculate_planar_transformation(self, position) == Raise("NotImplementedError")

\* the switcher of calculate_transformation: the rule stored for a type index
Switcher(type_idx, self, position) ==
    CASE type_idx = REVOLUTE -> calculate_revolute_transformation(self, position)
      [] type_idx = CONTINUOUS -> calculate_continuous_transformation(self, position)
      [] type_idx = PRISMATIC -> calculate_prismatic_transformation(self, position)
      [] type_idx = FIXED -> calculate_fixed_transformation(self, position)
      [] type_idx = FLOATING -> calculate_floating_transformation(self, position)
      [] type_idx = PLANAR -> calculate_planar_transformation(self, position)

\* the rule calculate_transformation applies: resolved from self.type on the first
\* call and stored in self._calculate_transformation, read from there afterwards
Dispatch(self) == IF self.dispatch = Unset THEN self.type ELSE self.dispatch

\* Joint.calculate_transformation: what the call returns or raises
calculate_transformation(self, position) == Switcher(Dispatch(self), self, position)

\* Joint.current_transformation
current_transformation(self) == TransformationFromFrame(self.current_origin)

Joint_transform_FromStatic(self, transformation) ==
    [self EXCEPT !.current_origin = FrameTransformed(self.origin, transformation),
                 !.current_axis = Axis_transform(self.current_axis, transformation)]

\* Joint.transform: the joint after the call
Joint_transform(self, transformation) ==
    LET frame == FrameTransformed(self.current_origin, transformation)
        xyz == Axis_transform(self.current_axis, transformation)
    IN  [self EXCEPT !.current_origin = frame,
                     !.current_axis = xyz,
                     !.origin = IF "origin" \in self.shares THEN frame ELSE @,
                     !.axis = IF "axis" \in self.shares THEN xyz ELSE @]

\* Joint._create: the joint after the call
Joint_create(self, transformation) ==
    LET created == [self EXCEPT !.current_origin = FrameTransformed(self.origin, transformation),
                                !.shares = @ \ {"origin"}]
        xyz == Axis_transform(self.current_axis, current_transformation(created))
    IN  [created EXCEPT !.current_axis = xyz,
                        !.axis = IF "axis" \in self.shares THEN xyz ELSE @]

Joint_scale_FromStatic(self, factor) ==
    LET scaled == [self EXCEPT !.current_origin = FrameScaled(self.origin, factor)]
    IN  IF is_scalable(scaled)
        THEN IF scaled.limit = None
             THEN [joint |-> scaled, status |-> "AttributeError"]
             ELSE [joint |-> [scaled EXCEPT !.limit = Limit_scale(scaled.limit, factor)],
                   status |-> "ok"]
        ELSE [joint |-> scaled, status |-> "ok"]

Joint_scale_ChecksFirst(self, factor) ==
    IF is_scalable(self) /\ self.limit = None
    THEN [joint |-> self, status |-> "AttributeError"]
    ELSE LET scaled == [self EXCEPT !.current_origin = FrameScaled(self.current_origin, factor)]
         IN  IF is_scalable(scaled)
             THEN [joint |-> [scaled EXCEPT !.limit = Limit_scale(scaled.limit, factor)],
                   status |-> "ok"]
             ELSE [joint |-> scaled, status |-> "ok"]

Joint_scale_Always(self, factor) ==
    LET scaled == [self EXCEPT !.current_origin = FrameScaled(self.current_origin, factor)]
    IN  IF scaled.limit = None
        THEN [joint |-> scaled, status |-> "AttributeError"]
        ELSE [joint |-> [scaled EXCEPT !.limit = Limit_scale(scaled.limit, factor)],
              status |-> "ok"]

\* Joint.scale: the joint after the call and how the call ended; None has no
\* scale method, so a scalable joint without limit raises AttributeError after
\* current_origin has been scaled
Joint_scale(self, factor) ==
    LET frame == FrameScaled(self.current_origin, factor)
        scaled == [self EXCEPT !.current_origin = frame,
                               !.origin = IF "origin" \in self.shares THEN frame ELSE @]
    IN  IF is_scalable(scaled)
        THEN IF scaled.limit = None
             THEN [joint |-> scaled, status |-> "AttributeError"]
             ELSE [joint |-> [scaled EXCEPT !.limit = Limit_scale(scaled.limit, factor)],
                   status |-> "ok"]
        ELSE [joint |-> scaled, status |-> "ok"]

\* Joint.data (setter): the assignments in their order; an unsupported type name
\* raises ValueError once the name has been assigned
Joint_set_data(self, data) ==
    IF ~InSupportedTypes(data.type)
    THEN [joint |-> [self EXCEPT !.name = data.name], status |-> "ValueError"]
    ELSE [joint |-> [self EXCEPT !.name = data.name,
                                 !.type = TypeIndex(data.type),
                                 !.origin = data.origin,
                                 !.axis = data.axis,
                                 !.limit = data.limit,
                                 !.mimic = data.mimic,
                                 !.position = data.position,
                                 !.shares = {}],
          status |-> "ok"]

\* Joint.from_data: a joint constructed from the name and the type of the data,
\* with the default origin and axis, and then assigned the data
Joint_from_data(data) ==
    IF ResolveType(StrType(data.type)) = Unset
    THEN [joint |-> NoJoint, status |-> "ValueError"]
    ELSE Joint_set_data(
             NewJoint(data.name, ResolveType(StrType(data.type)), None, None, None, None), data)

(***************************************************************************)
(* Inputs.                                                                 *)
(***************************************************************************)
Positions == (-MaxPos)..MaxPos
Factors == {Ratio(-1, 1), Ratio(0, 1), Ratio(2, 1), Ratio(1, 2)}
\* the scalings whose products are whole numbers
ScalesExactly(self, factor) ==
    /\ \A i \in 1..3 : IsWhole(self.current_origin.point[i], factor)
    /\ self.limit # None => IsWhole(self.limit.lower, factor) /\ IsWhole(self.limit.upper, factor)
TypeArgs ==
    {StrType(SUPPORTED_TYPES[k]) : k \in 1..Len(SUPPORTED_TYPES)}
        \cup {IntType(i) : i \in -1..Len(SUPPORTED_TYPES)}
        \cup {StrType("spherical")}
Origins == {None, Frame(<<1, 0, 0>>, <<1, 0, 0>>, <<0, 1, 0>>)}
Axes == {None, Axis(<<0, 0, 0>>), Axis(<<0, 0, 2>>)}
Limits == {None, Limit(5, 3, -1, 1, "soft")}
Mimics == {None, Mimic("other", 2, 1)}
\* the parent joint of a two-joint chain: prismatic along (1, 0, 0), limit [-1, 1]
J1 == NewJoint("J1", PRISMATIC, None, Axis(<<1, 0, 0>>), Limit(5, 3, -1, 1, "soft"), None)
Transforms ==
    {TranslationFromVector(<<1, 0, 0>>),
     RotationFromAxisAndAngle(<<0, 0, 1>>, 1, <<0, 0, 0>>),
     calculate_transformation(J1, 1).value}
DataValues ==
    {[name |-> "j2", type |-> t, origin |-> Frame(<<0, 1, 0>>, <<1, 0, 0>>, <<0, 1, 0>>),
      axis |-> <<0, 0, 1>>, limit |-> l, mimic |-> None, position |-> 1] :
        t \in {"revolute", "continuous", "prismatic", "fixed", "floating", "spherical"},
        l \in Limits}

(***************************************************************************)
(* State: the joint, and the last call with the joint it was made on, its  *)
(* argument and its outcome.                                               *)
(***************************************************************************)
Call(op, arg, pre, outcome) ==
    [op |-> op, arg |-> arg, pre |-> pre, status |-> outcome.status, value |-> outcome.value]

Init ==
    /\ joint = NoJoint
    /\ last = Call("none", None, NoJoint, Return(NoValue))
    /\ ncalls = 0
    /\ robot = None
    /\ curve = << >>
    /\ network = None
    /\ material = None

\* Joint(name, type, parent, child, origin, axis, limit=limit, mimic=mimic)
Construct(type, origin, axis, limit, mimic) ==
    /\ joint = NoJoint
    /\ IF ResolveType(type) = Unset
       THEN /\ joint' = NoJoint
            /\ last' = Call("__init__", type, NoJoint, Raise("ValueError"))
       ELSE /\ joint' = NewJoint("j1", ResolveType(type), origin, axis, limit, mimic)
            /\ last' = Call("__init__", type, NoJoint, Return(NoValue))
    /\ UNCHANGED << ncalls, robot, curve, network, material >>

CalculateTransformation_StoresPosition(position) ==
    /\ joint # NoJoint
    /\ ncalls < MaxCalls
    /\ ncalls' = ncalls + 1
    /\ UNCHANGED others
    /\ joint' = [joint EXCEPT !.dispatch = Dispatch(joint), !.position = position]
    /\ last' = Call("calculate_transformation", position, joint,
                    calculate_transformation(joint, position))

\* Joint.from_data(data)
FromData(data) ==
    /\ joint = NoJoint
    /\ joint' = Joint_from_data(data).joint
    /\ last' = Call("from_data", data, NoJoint,
                    [status |-> Joint_from_data(data).status, value |-> NoValue])
    /\ UNCHANGED << ncalls, robot, curve, network, material >>

\* joint.calculate_transformation(position)
CalculateTransformation(position) ==
    /\ joint # NoJoint
    /\ ncalls < MaxCalls
    /\ ncalls' = ncalls + 1
    /\ UNCHANGED others
    /\ joint' = [joint EXCEPT !.dispatch = Dispatch(joint)]
    /\ last' = Call("calculate_transformation", position, joint,
                    calculate_transformation(joint, position))

\* joint.is_configurable()
IsConfigurable ==
    /\ joint # NoJoint
    /\ ncalls < MaxCalls
    /\ ncalls' = ncalls + 1
    /\ UNCHANGED others
    /\ joint' = joint
    /\ last' = Call("is_configurable", None, joint, Return(is_configurable(joint)))

\* joint.is_scalable()
IsScalable ==
    /\ joint # NoJoint
    /\ ncalls < MaxCalls
    /\ ncalls' = ncalls + 1
    /\ UNCHANGED others
    /\ joint' = joint
    /\ last' = Call("is_scalable", None, joint, Return(is_scalable(joint)))

\* joint.transform(transformation)
Transform(transformation) ==
    /\ joint # NoJoint
    /\ ncalls < MaxCalls
    /\ ncalls' = ncalls + 1
    /\ UNCHANGED others
    /\ joint' = Joint_transform(joint, transformation)
    /\ last' = Call("transform", transformation, joint, Return(NoValue))

\* joint._create(transformation)
Create(transformation) ==
    /\ joint # NoJoint
    /\ ncalls < MaxCalls
    /\ ncalls' = ncalls + 1
    /\ UNCHANGED others
    /\ joint' = Joint_create(joint, transformation)
    /\ last' = Call("_create", transformation, joint, Return(NoValue))

\* joint.scale(factor)
Scale(factor) ==
    /\ joint # NoJoint
    /\ ncalls < MaxCalls
    /\ ncalls' = ncalls + 1
    /\ UNCHANGED others
    /\ ScalesExactly(joint, factor)
    /\ joint' = Joint_scale(joint, factor).joint
    /\ last' = Call("scale", factor, joint,
                    [status |-> Joint_scale(joint, factor).status, value |-> NoValue])

\* joint.limit.scale(factor)
LimitScale(factor) ==
    /\ joint # NoJoint
    /\ ncalls < MaxCalls
    /\ ncalls' = ncalls + 1
    /\ UNCHANGED others
    /\ joint.limit # None
    /\ ScalesExactly(joint, factor)
    /\ joint' = [joint EXCEPT !.limit = Limit_scale(joint.limit, factor)]
    /\ last' = Call("limit.scale", factor, joint, Return(NoValue))

\* joint.data = data
SetData(data) ==
    /\ joint # NoJoint
    /\ ncalls < MaxCalls
    /\ ncalls' = ncalls + 1
    /\ UNCHANGED others
    /\ joint' = Joint_set_data(joint, data).joint
    /\ last' = Call("data", data, joint,
                    [status |-> Joint_set_data(joint, data).status, value |-> NoValue])

Next ==
    \/ \E type \in TypeArgs, origin \in Origins, axis \in Axes, limit \in Limits, mimic \in Mimics :
          Construct(type, origin, axis, limit, mimic)
    \/ \E data \in DataValues : FromData(data)
    \/ \E position \in Positions : CalculateTransformation(position)
    \/ IsConfigurable
    \/ IsScalable
    \/ \E transformation \in Transforms : Transform(transformation)
    \/ \E transformation \in Transforms : Create(transformation)
    \/ \E factor \in Factors : Scale(factor)
    \/ \E factor \in Factors : LimitScale(factor)
    \/ \E data \in DataValues : SetData(data)

Spec == Init /\ [][Next]_vars

(***************************************************************************)
(* The mimic of a joint on its own: a joint is constructed with a Mimic    *)
(* built from every combination of given and omitted keyword arguments,    *)
(* and the mimic is asked for positions.                                   *)
(***************************************************************************)
NoKwargs == [k \in {} |-> 0]
MimicKwargs ==
    {NoKwargs}
    \cup {[multiplier |-> m] : m \in Positions}
    \cup {[offset |-> o] : o \in Positions}
    \cup {[multiplier |-> m, offset |-> o] : m \in Positions, o \in Positions}
MimicPositions == Positions \cup {5}

InitMimic ==
    /\ \E kwargs \in MimicKwargs :
          /\ joint = NewJoint("j1", REVOLUTE, None, None, None, Mimic_init("other", kwargs))
          /\ last = Call("Mimic.__init__", kwargs, NoJoint, Return(NoValue))
    /\ ncalls = 0
    /\ robot = None
    /\ curve = << >>
    /\ network = None
    /\ material = None

\* joint.mimic.calculate_position(mimicked_joint_position)
MimicCalculatePosition(mimicked_joint_position) ==
    /\ joint.mimic # None
    /\ last' = Call("mimic.calculate_position", mimicked_joint_position, joint,
                    Return(Mimic_calculate_position(joint.mimic, mimicked_joint_position)))
    /\ UNCHANGED << joint, ncalls, robot, curve, network, material >>

NextMimic == \E position \in MimicPositions : MimicCalculatePosition(position)

SpecMimic == InitMimic /\ [][NextMimic]_vars

(***************************************************************************)
(* The axis of a joint on its own: an Axis is constructed from a direction *)
(* along a coordinate axis or from the zero vector, and is then transformed *)
(* in place or asked for a transformed copy.                               *)
(***************************************************************************)
AxisInputs ==
    {<<k, 0, 0>> : k \in Positions} \cup {<<0, k, 0>> : k \in Positions}
    \cup {<<0, 0, k>> : k \in Positions}
AxisTransforms ==
    Transforms \cup {RotationFromAxisAndAngle(<<1, 0, 0>>, 1, <<0, 0, 0>>),
                     RotationFromAxisAndAngle(<<0, 1, 0>>, 1, <<1, 0, 0>>)}

InitAxis ==
    /\ \E xyz \in AxisInputs :
          /\ joint = NewJoint("j1", REVOLUTE, None, Axis(xyz), None, None)
          /\ last = Call("Axis.__init__", xyz, NoJoint, Return(NoValue))
    /\ ncalls = 0
    /\ robot = None
    /\ curve = << >>
    /\ network = None
    /\ material = None

\* joint.axis.transform(transformation)
AxisTransform(transformation) ==
    /\ ncalls < MaxCalls
    /\ ncalls' = ncalls + 1
    /\ UNCHANGED others
    /\ joint' = [joint EXCEPT !.axis = Axis_transform(joint.axis, transformation)]
    /\ last' = Call("axis.transform", transformation, joint, Return(NoValue))

\* joint.axis.transformed(transformation)
AxisTransformed(transformation) ==
    /\ ncalls < MaxCalls
    /\ ncalls' = ncalls + 1
    /\ UNCHANGED others
    /\ joint' = joint
    /\ last' = Call("axis.transformed", transformation, joint,
                    Return(Axis_transformed(joint.axis, transformation)))

NextAxis ==
    \/ \E transformation \in AxisTransforms : AxisTransform(transformation)
    \/ \E transformation \in AxisTransforms : AxisTransformed(transformation)

SpecAxis == InitAxis /\ [][NextAxis]_vars

(***************************************************************************)
(* The position pass of a robot model over three joints A, B, C, visited   *)
(* in this order.  A joint without Mimic takes the position it is given; a *)
(* joint with a Mimic takes the mimic law applied to the position the      *)
(* mimicked joint, looked up by name, has at that moment.  The pass keeps   *)
(* no record of the joints it went through.                                *)
(***************************************************************************)
JointNames == <<"A", "B", "C">>
JointNameSet == {JointNames[i] : i \in 1..Len(JointNames)}
MimicGraphs == [JointNameSet -> {None} \cup {Mimic(n, 2, 1) : n \in JointNameSet}]

NewRobot(mimics) ==
    [mimic |-> mimics, position |-> [n \in JointNameSet |-> 0], visited |-> 0, status |-> "ok"]

InitRobot ==
    /\ joint = NoJoint
    /\ last = Call("none", None, NoJoint, Return(NoValue))
    /\ ncalls = 0
    /\ robot \in {NewRobot(mimics) : mimics \in MimicGraphs}
    /\ curve = << >>
    /\ network = None
    /\ material = None

\* the position of the next joint of the pass
ResolvePosition(given) ==
    /\ robot.visited < Len(JointNames)
    /\ LET name == JointNames[robot.visited + 1]
           mimic == robot.mimic[name]
           position == IF mimic = None
                       THEN given
                       ELSE Mimic_calculate_position(mimic, robot.position[mimic.joint])
       IN  robot' = [robot EXCEPT !.position[name] = position, !.visited = @ + 1]
    /\ UNCHANGED << joint, last, ncalls, curve, network, material >>

NextRobot == \E given \in Positions : ResolvePosition(given)

SpecRobot == InitRobot /\ [][NextRobot]_vars

(***************************************************************************)
(* Bezier curve (src/compas/geometry/primitives/curve.py).  The parameter  *)
(* t is a ratio num/den; a point on a curve of degree n is a triple of     *)
(* numerators over the denominator den^n.                                  *)
(***************************************************************************)
RECURSIVE Factorial(_)
Factorial(n) == IF n <= 0 THEN 1 ELSE n * Factorial(n - 1)

\* b ** e, with 0 ** 0 = 1
RECURSIVE Pow(_, _)
Pow(b, e) == IF e <= 0 THEN 1 ELSE b * Pow(b, e - 1)

binomial_coefficient(n, k) == Factorial(n) \div (Factorial(k) * Factorial(n - k))

\* bernstein(n, k, t): the numerator of the value over t.den ^ n
bernstein(n, k, t) ==
    IF k < 0 THEN 0
    ELSE IF k > n THEN 0
    ELSE binomial_coefficient(n, k) * Pow(t.num, k) * Pow(t.den - t.num, n - k)

\* Bezier(points): an empty sequence of points is not assigned
Bezier(points) == IF points # << >> THEN points ELSE << >>

Bezier_degree(self) == Len(self) - 1

RECURSIVE WeightedSum(_, _, _, _)
WeightedSum(self, t, c, i) ==
    IF i > Len(self) THEN 0
    ELSE self[i][c] * bernstein(Bezier_degree(self), i - 1, t) + WeightedSum(self, t, c, i + 1)

\* Bezier.point(t)
Bezier_point(self, t) ==
    [num |-> << WeightedSum(self, t, 1, 1), WeightedSum(self, t, 2, 1), WeightedSum(self, t, 3, 1) >>,
     den |-> Pow(t.den, Bezier_degree(self))]

\* Bezier.locus(resolution): t = i / divisor raises when the divisor is 0.0
Bezier_locus(self, resolution) ==
    LET divisor == resolution - 1
    IN  IF resolution >= 1 /\ divisor = 0
        THEN Raise("ZeroDivisionError")
        ELSE Return([i \in 1..resolution |-> Bezier_point(self, Ratio(i - 1, divisor))])

ControlPoints == {<<x, 0, 0>> : x \in Positions} \cup {<<0, 1, 0>>, <<0, 0, 1>>}
Curves ==
    {<< >>} \cup {<<p>> : p \in ControlPoints}
    \cup {<<p, q>> : p \in ControlPoints, q \in ControlPoints}
    \cup {<<p, q, r>> : p \in ControlPoints, q \in {<<1, 0, 0>>, <<0, 1, 0>>}, r \in ControlPoints}

InitBezier ==
    /\ joint = NoJoint
    /\ ncalls = 0
    /\ robot = None
    /\ network = None
    /\ material = None
    /\ \E points \in Curves :
          /\ curve = Bezier(points)
          /\ last = Call("Bezier.__init__", points, NoJoint, Return(NoValue))

\* curve.locus(resolution)
Locus(resolution) ==
    /\ last' = Call("locus", resolution, curve, Bezier_locus(curve, resolution))
    /\ UNCHANGED << joint, ncalls, robot, curve, network, material >>

NextBezier == \E resolution \in 0..MaxResolution : Locus(resolution)

SpecBezier == InitBezier /\ [][NextBezier]_vars

(***************************************************************************)
(* Network (src/compas/datastructures/network/network.py): the keys of its *)
(* nodes and the counter _max_int_key.  A key is an integer or a string;   *)
(* comparing a string with the counter raises TypeError, which add_node    *)
(* catches.                                                                *)
(***************************************************************************)
IntKey(i) == [int |-> TRUE, i |-> i, s |-> ""]
StrKey(s) == [int |-> FALSE, i |-> 0, s |-> s]

\* Graph.__init__: no nodes, and the counter below the first generated key 0
NewNetwork == [node |-> {}, max_int_key |-> -1]

\* Graph.add_node: the node is stored under the key and the key is returned
Graph_add_node(self, key) ==
    [network |-> [self EXCEPT !.node = @ \cup {key}], value |-> key]

Network_add_node_KeepsCounter(self, key) ==
    LET generated == self.max_int_key + 1
    IN  IF key = None
        THEN Graph_add_node([self EXCEPT !.max_int_key = generated], IntKey(generated))
        ELSE Graph_add_node(self, key)

\* Network.add_node
Network_add_node(self, key) ==
    LET generated == self.max_int_key + 1
        given == IF key = None THEN IntKey(generated) ELSE key
        counted == IF key = None THEN [self EXCEPT !.max_int_key = generated] ELSE self
    IN  IF given.int /\ given.i > counted.max_int_key
        THEN Graph_add_node([counted EXCEPT !.max_int_key = given.i], given)
        ELSE Graph_add_node(counted, given)

KeyArgs == {None} \cup {IntKey(i) : i \in Positions} \cup {StrKey("a"), StrKey("7")}

InitNetwork ==
    /\ joint = NoJoint
    /\ last = Call("Network.__init__", None, NoJoint, Return(NoValue))
    /\ ncalls = 0
    /\ robot = None
    /\ curve = << >>
    /\ network = NewNetwork
    /\ material = None

\* network.add_node(key)
AddNode(key) ==
    /\ ncalls < MaxCalls
    /\ ncalls' = ncalls + 1
    /\ network' = Network_add_node(network, key).network
    /\ last' = Call("add_node", key, network, Return(Network_add_node(network, key).value))
    /\ UNCHANGED << joint, robot, curve, material >>

NextNetwork == \E key \in KeyArgs : AddNode(key)

SpecNetwork == InitNetwork /\ [][NextNetwork]_vars

(***************************************************************************)
(* glTF data classes (src/compas/files/gltf/data_classes.py).  An object   *)
(* is the function from the names of its attributes that are not None to   *)
(* their values; a data dictionary is the function from its keys to their  *)
(* values.  Extensions are plain values under keys that have no extension  *)
(* class, which to_data and from_data pass on as they are.                 *)
(***************************************************************************)
EmptyDict == [k \in {} |-> 0]

\* if self.<attr> is not None: dict[<key>] = self.<attr>
WriteIf(self, attr, key) == IF attr \in DOMAIN self THEN key :> self[attr] ELSE EmptyDict
\* <attr> = data.get(<key>)
Get(attr, data, key) == IF key \in DOMAIN data THEN attr :> data[key] ELSE EmptyDict

\* TextureInfoData.to_data and the fields its subclasses add
TextureInfoData_to_data(self, texture_index_by_key) ==
    ("index" :> texture_index_by_key[self.index])
    @@ WriteIf(self, "tex_coord", "texCoord")
    @@ WriteIf(self, "extras", "extras")
    @@ WriteIf(self, "extensions", "extensions")
OcclusionTextureInfoData_to_data(self, texture_index_by_key) ==
    TextureInfoData_to_data(self, texture_index_by_key) @@ WriteIf(self, "strength", "strength")
NormalTextureInfoData_to_data(self, texture_index_by_key) ==
    TextureInfoData_to_data(self, texture_index_by_key) @@ WriteIf(self, "scale", "scale")

\* TextureInfoData.from_data and its subclasses
TextureInfoData_from_data(texture_info) ==
    ("index" :> texture_info["index"])
    @@ Get("tex_coord", texture_info, "texCoord")
    @@ Get("extras", texture_info, "extras")
    @@ Get("extensions", texture_info, "extensions")
OcclusionTextureInfoData_from_data(texture_info) ==
    TextureInfoData_from_data(texture_info) @@ Get("strength", texture_info, "strength")
NormalTextureInfoData_from_data(texture_info) ==
    TextureInfoData_from_data(texture_info) @@ Get("scale", texture_info, "scale")

\* PBRMetallicRoughnessData.to_data
PBRMetallicRoughnessData_to_data(self, texture_index_by_key) ==
    WriteIf(self, "base_color_factor", "baseColorFactor")
    @@ (IF "base_color_texture" \in DOMAIN self
        THEN "baseColorTexture" :> TextureInfoData_to_data(self["base_color_texture"], texture_index_by_key)
        ELSE EmptyDict)
    @@ WriteIf(self, "metallic_factor", "metallicFactor")
    @@ WriteIf(self, "roughness_factor", "roughnessFactor")
    @@ (IF "metallic_roughness_texture" \in DOMAIN self
        THEN "metallicRoughnessTexture" :>
                 TextureInfoData_to_data(self["metallic_roughness_texture"], texture_index_by_key)
        ELSE EmptyDict)
    @@ WriteIf(self, "extras", "extras")
    @@ WriteIf(self, "extensions", "extensions")

\* PBRMetallicRoughnessData.from_data
PBRMetallicRoughnessData_from_data(texture_info) ==
    Get("base_color_factor", texture_info, "baseColorFactor")
    @@ (IF "baseColorTexture" \in DOMAIN texture_info
        THEN "base_color_texture" :> TextureInfoData_from_data(texture_info["baseColorTexture"])
        ELSE EmptyDict)
    @@ Get("metallic_factor", texture_info, "metallicFactor")
    @@ Get("roughness_factor", texture_info, "roughnessFactor")
    @@ (IF "metallicRoughnessTexture" \in DOMAIN texture_info
        THEN "metallic_roughness_texture" :>
                 TextureInfoData_from_data(texture_info["metallicRoughnessTexture"])
        ELSE EmptyDict)
    @@ Get("extras", texture_info, "extras")
    @@ Get("extensions", texture_info, "extensions")

\* MaterialData.to_data
MaterialData_to_data(self, texture_index_by_key) ==
    WriteIf(self, "name", "name")
    @@ WriteIf(self, "extras", "extras")
    @@ (IF "pbr_metallic_roughness" \in DOMAIN self
        THEN "pbrMetallicRoughness" :>
                 PBRMetallicRoughnessData_to_data(self["pbr_metallic_roughness"], texture_index_by_key)
        ELSE EmptyDict)
    @@ (IF "normal_texture" \in DOMAIN self
        THEN "normalTexture" :> NormalTextureInfoData_to_data(self["normal_texture"], texture_index_by_key)
        ELSE EmptyDict)
    @@ (IF "occlusion_texture" \in DOMAIN self
        THEN "materialTexture" :>
                 OcclusionTextureInfoData_to_data(self["occlusion_texture"], texture_index_by_key)
        ELSE EmptyDict)
    @@ (IF "emissive_texture" \in DOMAIN self
        THEN "emissiveTexture" :> TextureInfoData_to_data(self["emissive_texture"], texture_index_by_key)
        ELSE EmptyDict)
    @@ WriteIf(self, "emissive_factor", "emissiveFactor")
    @@ WriteIf(self, "alpha_mode", "alphaMode")
    @@ WriteIf(self, "alpha_cutoff", "alphaFactor")
    @@ WriteIf(self, "double_sided", "doubleSided")
    @@ WriteIf(self, "extensions", "extensions")

\* MaterialData.from_data
MaterialData_from_data(data) ==
    Get("name", data, "name")
    @@ Get("extras", data, "extras")
    @@ (IF "pbrMetallicRoughness" \in DOMAIN data
        THEN "pbr_metallic_roughness" :> PBRMetallicRoughnessData_from_data(data["pbrMetallicRoughness"])
        ELSE EmptyDict)
    @@ (IF "normalTexture" \in DOMAIN data
        THEN "normal_texture" :> NormalTextureInfoData_from_data(data["normalTexture"])
        ELSE EmptyDict)
    @@ (IF "occlusionTexture" \in DOMAIN data
        THEN "occlusion_texture" :> OcclusionTextureInfoData_from_data(data["occlusionTexture"])
        ELSE EmptyDict)
    @@ (IF "emissiveTexture" \in DOMAIN data
        THEN "emissive_texture" :> TextureInfoData_from_data(data["emissiveTexture"])
        ELSE EmptyDict)
    @@ Get("emissive_factor", data, "emissiveFactor")
    @@ Get("alpha_mode", data, "alphaMode")
    @@ Get("alpha_cutoff", data, "alphaCutoff")
    @@ Get("double_sided", data, "doubleSided")
    @@ Get("extensions", data, "extensions")

\* the identity texture index map over the texture keys 0 and 1
TextureIndexByKey == [key \in 0..1 |-> key]

Optional(attr, values) == {EmptyDict} \cup {attr :> v : v \in values}
TextureInfos == {("index" :> 0), ("index" :> 1) @@ ("tex_coord" :> 1)}
PBRs ==
    {("metallic_factor" :> 1),
     ("base_color_texture" :> ("index" :> 1)) @@ ("roughness_factor" :> 0)}
Materials ==
    {a @@ b @@ c @@ d @@ e @@ f @@ g @@ h @@ i @@ j :
        a \in Optional("name", {"steel"}),
        b \in Optional("extras", {"note"}),
        c \in Optional("pbr_metallic_roughness", PBRs),
        d \in Optional("normal_texture", {("index" :> 0) @@ ("scale" :> 2)}),
        e \in Optional("occlusion_texture", {("index" :> 1) @@ ("strength" :> 1)}),
        f \in Optional("emissive_texture", TextureInfos),
        g \in Optional("emissive_factor", {<<1, 0, 0>>}),
        h \in Optional("alpha_mode", {"MASK", "OPAQUE"}),
        i \in Optional("alpha_cutoff", {1}),
        j \in Optional("double_sided", {TRUE, FALSE})}

InitMaterial ==
    /\ joint = NoJoint
    /\ ncalls = 0
    /\ robot = None
    /\ curve = << >>
    /\ network = None
    /\ material \in Materials
    /\ last = Call("MaterialData.__init__", None, NoJoint, Return(NoValue))

\* material.to_data(texture_index_by_key)
MaterialToData ==
    /\ last.op # "to_data"
    /\ last' = Call("to_data", TextureIndexByKey, material,
                    Return(MaterialData_to_data(material, TextureIndexByKey)))
    /\ UNCHANGED << joint, ncalls, robot, curve, network, material >>

\* MaterialData.from_data(data) on the data the last to_data call returned; the
\* call record keeps the material the data was written from
MaterialFromData ==
    /\ last.op = "to_data"
    /\ material' = MaterialData_from_data(last.value)
    /\ last' = Call("MaterialData.from_data", last.value, last.pre, Return(NoValue))
    /\ UNCHANGED << joint, ncalls, robot, curve, network >>

NextMaterial == MaterialToData \/ MaterialFromData

SpecMaterial == InitMaterial /\ [][NextMaterial]_vars

(***************************************************************************)
(* Properties.                                                             *)
(***************************************************************************)
Called(op) == last.op = op
Outcome == [status |-> last.status, value |-> last.value]

\* a position clamped into [lower, upper]
Clamped(p, limit) ==
    IF p > limit.upper THEN limit.upper ELSE IF p < limit.lower THEN limit.lower ELSE p

\* the index of each supported type name
KindOf(s) ==
    CASE s = "revolute" -> REVOLUTE
      [] s = "continuous" -> CONTINUOUS
      [] s = "prismatic" -> PRISMATIC
      [] s = "fixed" -> FIXED
      [] s = "floating" -> FLOATING
      [] s = "planar" -> PLANAR
IsKindName(s) == s \in {"revolute", "continuous", "prismatic", "fixed", "floating", "planar"}

\* C1: on a Revolute or Prismatic joint that has a limit, calculate_transformation(p)
\* returns the transform that calculate_transformation returns for p clamped into
\* [limit.lower, limit.upper].
C1_ClampingIdempotence ==
    (Called("calculate_transformation")
        /\ last.pre.type \in {REVOLUTE, PRISMATIC} /\ last.pre.limit # None)
    => /\ last.status = "ok"
       /\ Outcome = calculate_transformation(joint, Clamped(last.arg, last.pre.limit))

\* C2: on a joint whose kind is Fixed, calculate_transformation(p) returns the
\* identity transform for every p.
C2_FixedIsIdentity ==
    (Called("calculate_transformation") /\ last.pre.type = FIXED)
    => Outcome = Return(Identity)

\* C3: on a Revolute or Prismatic joint with no limit, calculate_transformation
\* fails for every position and returns no transform.
C3_MissingLimitFails ==
    (Called("calculate_transformation")
        /\ last.pre.type \in {REVOLUTE, PRISMATIC} /\ last.pre.limit = None)
    => last.status # "ok" /\ last.value = NoValue

\* C4: on a Floating or Planar joint, calculate_transformation fails for every
\* position with NotImplementedError, which is not the error of a missing limit
\* (ValueError).
C4_UnimplementedKindFails ==
    (Called("calculate_transformation") /\ last.pre.type \in {FLOATING, PLANAR})
    => last.status = "NotImplementedError" /\ last.value = NoValue

\* C5: the constructor fails with an error and yields no joint when the type is
\* neither one of the six supported names nor an index in 0..5; with a supported
\* name or index it succeeds and the joint's type is the index.
C5_ConstructionChecksKind ==
    Called("__init__")
    => IF (last.arg.isstr /\ IsKindName(last.arg.s)) \/ (~last.arg.isstr /\ last.arg.i \in 0..5)
       THEN /\ last.status = "ok"
            /\ joint # NoJoint
            /\ joint.type = (IF last.arg.isstr THEN KindOf(last.arg.s) ELSE last.arg.i)
       ELSE /\ last.status = "ValueError"
            /\ joint = NoJoint

C5_Witness ==
    /\ Called("__init__")
    /\ last.arg = IntType(6)
    /\ last.status = "ValueError"
    /\ joint = NoJoint

C7_IsConfigurable ==
    Called("is_configurable")
    => (last.value = FALSE <=> (last.pre.type = FIXED \/ last.pre.mimic # None))

C7_Witness ==
    /\ Called("is_configurable")
    /\ last.pre.type = FLOATING
    /\ last.pre.mimic = None
    /\ last.value = TRUE

\* C8: is_scalable() is true exactly when the kind is Planar or Prismatic.
C8_IsScalable ==
    Called("is_scalable")
    => (last.value = TRUE <=> last.pre.type \in {PLANAR, PRISMATIC})

C8_Witness ==
    /\ Called("is_scalable")
    /\ last.pre.type = PRISMATIC
    /\ last.pre.limit = None
    /\ last.pre.mimic # None
    /\ last.value = TRUE

\* C9: Joint.scale(factor) multiplies the point of current_origin by factor for every
\* kind; it multiplies limit.lower and limit.upper by factor when the kind is Planar
\* or Prismatic and leaves the limit as it is for the other kinds (a joint without
\* limit stays without limit); position, origin, axis and current_axis are unchanged.
C9_JointScale ==
    Called("scale")
    => /\ \A i \in 1..3 : joint.current_origin.point[i] * last.arg.den
                                = last.pre.current_origin.point[i] * last.arg.num
       /\ joint.current_origin.xaxis = last.pre.current_origin.xaxis
       /\ joint.current_origin.yaxis = last.pre.current_origin.yaxis
       /\ (last.pre.type \in {PLANAR, PRISMATIC} /\ last.pre.limit # None)
            => /\ joint.limit.lower * last.arg.den = last.pre.limit.lower * last.arg.num
               /\ joint.limit.upper * last.arg.den = last.pre.limit.upper * last.arg.num
       /\ last.pre.type \notin {PLANAR, PRISMATIC} => joint.limit = last.pre.limit
       /\ last.pre.limit = None => joint.limit = None
       /\ joint.position = last.pre.position
       /\ joint.origin = last.pre.origin
       /\ joint.axis = last.pre.axis
       /\ joint.current_axis = last.pre.current_axis

C9_Witness ==
    /\ Called("scale")
    /\ last.arg = Ratio(2, 1)
    /\ last.pre.type = PRISMATIC
    /\ last.pre.limit # None
    /\ joint.limit.upper = 2 * last.pre.limit.upper
    /\ joint.limit.upper # last.pre.limit.upper
    /\ joint.current_origin.point # last.pre.current_origin.point

\* C10: Limit.scale(factor) multiplies lower and upper by factor and leaves effort,
\* velocity and the auxiliary attributes unchanged.
C10_LimitScale ==
    (Called("limit.scale")
        \/ (Called("scale") /\ last.pre.type \in {PLANAR, PRISMATIC} /\ last.pre.limit # None))
    => /\ joint.limit.lower * last.arg.den = last.pre.limit.lower * last.arg.num
       /\ joint.limit.upper * last.arg.den = last.pre.limit.upper * last.arg.num
       /\ joint.limit.effort = last.pre.limit.effort
       /\ joint.limit.velocity = last.pre.limit.velocity
       /\ joint.limit.attr = last.pre.limit.attr

C10_Witness ==
    /\ Called("limit.scale")
    /\ last.arg = Ratio(-1, 1)
    /\ joint.limit.lower = 1
    /\ joint.limit.upper = -1
    /\ joint.limit.effort = 5

\* C11: for every joint and every non-zero factor f, scale(f) followed by
\* scale(1/f) restores the translation of current_origin the joint had before
\* scale(f) and, for the scalable kinds, the lower and upper bound of its
\* limit.  Stated in the state between the two calls: scale(f) has just
\* returned or raised, and the second call is applied to that state.
ScaledBack == Joint_scale(joint, Inverse(last.arg)).joint

C11_ScaleInverseRestores ==
    (Called("scale") /\ last.arg.num # 0)
    => /\ ScaledBack.current_origin.point = last.pre.current_origin.point
       /\ (last.pre.type \in {PLANAR, PRISMATIC} /\ last.pre.limit # None)
            => /\ ScaledBack.limit.lower = last.pre.limit.lower
               /\ ScaledBack.limit.upper = last.pre.limit.upper

\* scale(2) moved a prismatic joint's origin from (1,0,0) to (2,0,0) and its
\* limit from [-1, 1] to [-2, 2]; scale(1/2) brings both back
C11_Witness ==
    /\ Called("scale")
    /\ last.arg = Ratio(2, 1)
    /\ last.pre.type = PRISMATIC
    /\ last.pre.current_origin.point = <<1, 0, 0>>
    /\ joint.current_origin.point = <<2, 0, 0>>
    /\ joint.limit # None
    /\ joint.limit.upper = 2
    /\ Inverse(last.arg) = Ratio(1, 2)
    /\ ScaledBack.current_origin.point = <<1, 0, 0>>
    /\ ScaledBack.limit.upper = 1

\* C12: Mimic.calculate_position(x) returns multiplier * x + offset for every
\* x, with the multiplier and offset stored on the Mimic, which are the given
\* keyword arguments or the defaults 1 and 0; the call leaves the Mimic as it
\* was.  (Specification SpecMimic.)
C12_MimicPosition ==
    /\ Called("Mimic.__init__")
        => /\ joint.mimic.multiplier =
                 (IF "multiplier" \in DOMAIN last.arg THEN last.arg.multiplier ELSE 1)
           /\ joint.mimic.offset =
                 (IF "offset" \in DOMAIN last.arg THEN last.arg.offset ELSE 0)
    /\ Called("mimic.calculate_position")
        => /\ last.status = "ok"
           /\ last.value = last.pre.mimic.multiplier * last.arg + last.pre.mimic.offset
           /\ joint.mimic = last.pre.mimic

\* the spec's example in tenths: multiplier 2, offset 1 and x = 5 give 11
C12_Witness ==
    /\ Called("mimic.calculate_position")
    /\ joint.mimic.multiplier = 2
    /\ joint.mimic.offset = 1
    /\ last.arg = 5
    /\ last.value = 11

\* C13: Mimic.calculate_position is linear: for every x and y,
\* calculate_position(x) - calculate_position(y) = multiplier * (x - y).
\* (Specification SpecMimic; x is the position just asked for.)
C13_MimicLinear ==
    Called("mimic.calculate_position")
    => \A y \in MimicPositions :
          last.value - Mimic_calculate_position(joint.mimic, y)
            = joint.mimic.multiplier * (last.arg - y)

C13_Witness ==
    /\ Called("mimic.calculate_position")
    /\ joint.mimic.multiplier = -2
    /\ joint.mimic.offset = 1
    /\ last.arg = -1
    /\ last.value = 3
    /\ Mimic_calculate_position(joint.mimic, 2) = -3

\* C14: an Axis constructed from a non-zero direction stores that direction
\* normalised to unit length; an Axis constructed from the zero vector stores
\* exactly (0, 0, 0), and construction raises no error.  (Specification
\* SpecAxis.)
C14_AxisNormalised ==
    Called("Axis.__init__")
    => /\ last.status = "ok"
       /\ IF last.arg = <<0, 0, 0>>
          THEN joint.axis = <<0, 0, 0>>
          ELSE /\ Dot(joint.axis, joint.axis) = 1
               /\ \E n \in 1..(MaxPos + 1) :
                     /\ n * n = Dot(last.arg, last.arg)
                     /\ last.arg = << n * joint.axis[1], n * joint.axis[2], n * joint.axis[3] >>

C14_Witness ==
    /\ Called("Axis.__init__")
    /\ last.arg = <<0, -2, 0>>
    /\ joint.axis = <<0, -1, 0>>

\* C15: Axis.transformed(T) returns a new vector and leaves x, y, z of the
\* axis unchanged; Axis.transform(T) overwrites x, y, z with the components
\* that transformed(T) returns.  (Specification SpecAxis.)
C15_AxisTransform ==
    /\ Called("axis.transformed")
        => /\ joint.axis = last.pre.axis
           /\ last.value = TransformVector(last.arg, last.pre.axis)
    /\ Called("axis.transform")
        => /\ joint.axis = Axis_transformed(last.pre.axis, last.arg)
           /\ last.value = NoValue

C15_Witness ==
    /\ Called("axis.transform")
    /\ last.arg = RotationFromAxisAndAngle(<<0, 0, 1>>, 1, <<0, 0, 0>>)
    /\ last.pre.axis = <<1, 0, 0>>
    /\ joint.axis = <<0, 1, 0>>

\* C16: calculate_transformation(position) is a read-only query: for every
\* kind and position, whether it returns or raises, the joint's position,
\* limit, static origin and axis, current_origin and current_axis are as
\* before the call, and a second call with the same position on the joint as
\* the first call left it has the same outcome.
C16_ReadOnlyQuery ==
    Called("calculate_transformation")
    => /\ joint.position = last.pre.position
       /\ joint.limit = last.pre.limit
       /\ joint.origin = last.pre.origin
       /\ joint.axis = last.pre.axis
       /\ joint.current_origin = last.pre.current_origin
       /\ joint.current_axis = last.pre.current_axis
       /\ calculate_transformation(joint, last.arg) = Outcome

\* the first call on a prismatic joint without limit: it raises, and what it
\* stored on the joint is the rule of the kind
C16_Witness ==
    /\ Called("calculate_transformation")
    /\ last.pre.type = PRISMATIC
    /\ last.pre.dispatch = Unset
    /\ joint.dispatch = PRISMATIC
    /\ last.status = "ValueError"
    /\ last.arg = 1

\* C17: in a chain root -> J1 -> J2 where J1 is prismatic with axis (1, 0, 0)
\* and a limit that admits 1 and J2 is fixed, J2.transform of
\* J1.calculate_transformation(1) leaves the point of J2.current_origin equal
\* to the point of J2's static origin plus (1, 0, 0).  J2 is the joint of the
\* state, not moved before the propagation.
C17_ChainPropagation ==
    (/\ Called("transform")
     /\ last.arg = calculate_transformation(J1, 1).value
     /\ last.pre.type = FIXED
     /\ last.pre.current_origin = last.pre.origin)
    => joint.current_origin.point = VecAdd(joint.origin.point, <<1, 0, 0>>)

C17_Witness ==
    /\ Called("transform")
    /\ calculate_transformation(J1, 1).status = "ok"
    /\ last.arg = calculate_transformation(J1, 1).value
    /\ last.pre.type = FIXED
    /\ last.pre.current_origin = last.pre.origin
    /\ joint.origin.point = <<1, 0, 0>>
    /\ joint.current_origin.point = <<2, 0, 0>>

\* C18: propagation is composition-associative: for every joint and rigid
\* transformations T1 and T2, Joint.transform(T1) followed by
\* Joint.transform(T2) gives the same current_origin and current_axis as a
\* single Joint.transform(T2 o T1).  Stated in the state between the two
\* calls: transform(T1) has just returned, T2 is any transformation.
C18_TransformComposes ==
    Called("transform")
    => \A T2 \in Transforms :
          LET twice == Joint_transform(joint, T2)
              once == Joint_transform(last.pre, MatMul(T2, last.arg))
          IN  /\ twice.current_origin = once.current_origin
              /\ twice.current_axis = once.current_axis

\* a translation by (1, 0, 0) followed by a quarter turn about z carries the
\* origin point (1, 0, 0) to (0, 2, 0) and the axis (1, 0, 0) to (0, 1, 0)
C18_Witness ==
    /\ Called("transform")
    /\ last.arg = TranslationFromVector(<<1, 0, 0>>)
    /\ last.pre.current_origin.point = <<1, 0, 0>>
    /\ last.pre.current_axis = <<1, 0, 0>>
    /\ joint.current_origin.point = <<2, 0, 0>>
    /\ LET T2 == RotationFromAxisAndAngle(<<0, 0, 1>>, 1, <<0, 0, 0>>)
       IN  /\ Joint_transform(joint, T2).current_origin.point = <<0, 2, 0>>
           /\ Joint_transform(joint, T2).current_axis = <<0, 1, 0>>
           /\ Joint_transform(last.pre, MatMul(T2, last.arg)).current_origin.point = <<0, 2, 0>>

\* C19: resolving a joint's effective position through its mimic relation
\* terminates for every mimic graph; chains are resolved transitively, and a
\* cycle among mimic relations is rejected with an error.  (Specification
\* SpecRobot.  For a graph without cycle the resolved positions are compared
\* where every mimicked joint is visited before the joints that mimic it.)
MimicTargets(n) == IF robot.mimic[n] = None THEN {} ELSE {robot.mimic[n].joint}

RECURSIVE MimicReach(_, _)
MimicReach(names, k) ==
    IF k = 0 THEN names ELSE MimicReach(UNION {MimicTargets(n) : n \in names}, k - 1)

HasMimicCycle == \E n \in JointNameSet : \E k \in 1..Len(JointNames) : n \in MimicReach({n}, k)

Index(n) == CHOOSE i \in 1..Len(JointNames) : JointNames[i] = n
MimickedFirst == \A n \in JointNameSet : \A m \in MimicTargets(n) : Index(m) < Index(n)

RECURSIVE EffectivePosition(_)
EffectivePosition(n) ==
    IF robot.mimic[n] = None
    THEN robot.position[n]
    ELSE robot.mimic[n].multiplier * EffectivePosition(robot.mimic[n].joint) + robot.mimic[n].offset

C19_MimicResolution ==
    (robot.visited = Len(JointNames))
    => IF HasMimicCycle
       THEN robot.status = "error"
       ELSE MimickedFirst => \A n \in JointNameSet : robot.position[n] = EffectivePosition(n)

\* C20: Bezier.locus(resolution) returns exactly resolution points for every
\* positive integer resolution, the first equal to the first control point
\* and the last equal to the last control point, and never fails.
\* (Specification SpecBezier.)
IsPoint(q, p) == q.num = << p[1] * q.den, p[2] * q.den, p[3] * q.den >>

C20_LocusPoints ==
    (Called("locus") /\ last.arg >= 1 /\ Len(curve) >= 1)
    => /\ last.status = "ok"
       /\ Len(last.value) = last.arg
       /\ IsPoint(last.value[1], curve[1])
       /\ IsPoint(last.value[last.arg], curve[Len(curve)])

\* C21: the static origin and the static axis of a joint never change after
\* construction: no calculate_transformation, transform, _create or scale
\* call alters them, and a change made in place to current_origin or
\* current_axis does not show in origin or axis, the current fields being
\* copies.
C21_StaticFieldsKept ==
    (\/ Called("calculate_transformation")
     \/ Called("transform")
     \/ Called("_create")
     \/ Called("scale"))
    => /\ joint.origin = last.pre.origin
       /\ joint.axis = last.pre.axis

\* transform moved the current frame and turned the current axis of a joint
\* whose static fields are as constructed
C21_Witness ==
    /\ Called("transform")
    /\ last.arg = RotationFromAxisAndAngle(<<0, 0, 1>>, 1, <<0, 0, 0>>)
    /\ joint.origin.point = <<1, 0, 0>>
    /\ joint.current_origin.point = <<0, 1, 0>>
    /\ joint.axis = <<1, 0, 0>>
    /\ joint.current_axis = <<0, 1, 0>>

\* C22: after any sequence of operations on a joint its kind is the kind it
\* was constructed with, and every calculate_transformation call applies
\* the rule of the joint's kind: the rule memoised on the first call is the
\* rule of the kind the joint has at every later call.
C22_KindAndDispatch ==
    /\ (last.pre # NoJoint /\ joint # NoJoint) => joint.type = last.pre.type
    /\ Called("calculate_transformation")
        => Outcome = Switcher(last.pre.type, last.pre, last.arg)

\* C23: after _create(T), current_origin is the static origin transformed by
\* T and current_axis is the static axis expressed in the resulting frame,
\* so that a second _create(T) with the same T leaves current_origin and
\* current_axis as they were after the first.
C23_CreateFromStatic ==
    Called("_create")
    => /\ joint.current_origin = FrameTransformed(last.pre.origin, last.arg)
       /\ joint.current_axis =
             TransformVector(TransformationFromFrame(joint.current_origin), last.pre.axis)
       /\ Joint_create(joint, last.arg).current_origin = joint.current_origin
       /\ Joint_create(joint, last.arg).current_axis = joint.current_axis

\* C24: for a Continuous joint, calculate_transformation(position) is the
\* rotation about current_axis through exactly position, pivoting at the
\* point of current_origin: the position is never clamped, also when the joint
\* has a limit and the position lies outside it, and no limit is required.
C24_ContinuousUnclamped ==
    (Called("calculate_transformation") /\ last.pre.type = CONTINUOUS)
    => Outcome = Return(RotationFromAxisAndAngle(last.pre.current_axis, last.arg,
                                                 last.pre.current_origin.point))

\* C25: for a Prismatic joint with a limit, calculate_transformation(position)
\* is the translation by current_axis multiplied by the clamped position;
\* with a zero current_axis or a clamped position of 0 it is the identity,
\* and no error is raised.
C25_PrismaticTranslation ==
    (/\ Called("calculate_transformation")
     /\ last.pre.type = PRISMATIC
     /\ last.pre.limit # None
     /\ last.pre.limit.lower <= last.pre.limit.upper)
    => /\ Outcome = Return(TranslationFromVector(
                              VecScale(last.pre.current_axis, Clamped(last.arg, last.pre.limit))))
       /\ (last.pre.current_axis = <<0, 0, 0>> \/ Clamped(last.arg, last.pre.limit) = 0)
            => last.value = Identity

\* C26: when an operation on a joint fails, the error reaches the caller and
\* the joint is not corrupted: its position, limit, static and current
\* origin and axis are the same as before the failing call.
C26_FailureKeepsJoint ==
    (last.status # "ok" /\ last.pre # NoJoint)
    => /\ joint.position = last.pre.position
       /\ joint.limit = last.pre.limit
       /\ joint.origin = last.pre.origin
       /\ joint.axis = last.pre.axis
       /\ joint.current_origin = last.pre.current_origin
       /\ joint.current_axis = last.pre.current_axis

\* C27: Joint.scale(factor) on a scalable joint (Planar or Prismatic) without
\* limit fails, and when it fails current_origin has already been rescaled
\* by factor.
C27_ScaleFailsAfterOrigin ==
    (Called("scale") /\ last.pre.type \in {PLANAR, PRISMATIC} /\ last.pre.limit = None)
    => /\ last.status = "AttributeError"
       /\ \A i \in 1..3 : joint.current_origin.point[i] * last.arg.den
                                = last.pre.current_origin.point[i] * last.arg.num
       /\ joint.limit = None

C27_Witness ==
    /\ Called("scale")
    /\ last.pre.type = PLANAR
    /\ last.pre.limit = None
    /\ last.status = "AttributeError"
    /\ last.arg = Ratio(2, 1)
    /\ last.pre.current_origin.point = <<1, 0, 0>>
    /\ joint.current_origin.point = <<2, 0, 0>>

\* C28: a joint rebuilt with Joint.from_data(d), or updated by assigning its
\* data, has current_origin equal to its new static origin and current_axis
\* equal to its new static axis, as right after direct construction; its
\* position is d['position'].
C28_DataSetsCurrent ==
    ((Called("from_data") \/ Called("data")) /\ last.status = "ok")
    => /\ joint.current_origin = joint.origin
       /\ joint.current_axis = joint.axis
       /\ joint.position = last.arg.position

RoundTripFields ==
    {"name", "extras", "pbr_metallic_roughness", "normal_texture", "occlusion_texture",
     "emissive_texture", "emissive_factor", "alpha_mode", "alpha_cutoff", "double_sided"}

SameField(m1, m2, attr) ==
    /\ (attr \in DOMAIN m1) = (attr \in DOMAIN m2)
    /\ attr \in DOMAIN m1 /\ attr \in DOMAIN m2 => m1[attr] = m2[attr]

C30_MaterialRoundTrip ==
    Called("MaterialData.from_data")
    => \A attr \in RoundTripFields : SameField(material, last.pre, attr)

====
